---- MODULE Spec2Model ----
(***************************************************************************)
(* A model of afqinsight/cnn.py: the CNN estimator (constructor, fit,      *)
(* predict, score), its preprocessing of a flat feature matrix into a      *)
(* (samples, nodes, channels) tensor, and ModelBuilder's tuner selection   *)
(* and best-checkpoint restore.                                            *)
(*                                                                         *)
(* Numbers.  A missing value (numpy NaN) is the integer NaN.  A float      *)
(* test_size is held in tenths (0.2 is 2, 1.5 is 15).  A value produced    *)
(* by the imputer is a reduced fraction <<numerator, denominator>>.        *)
(***************************************************************************)
EXTENDS Integers, Sequences, FiniteSets, TLC

VARIABLES
    has_keras,  \* HAS_KERAS, set when the module is imported
    args,       \* the arguments the constructor was called with
    alive,      \* TRUE iff CNN.__init__ returned an object
    self,       \* the estimator's attributes
    fs,         \* the checkpoint files on disk: path -> weights
    ntmp,       \* number of directories tempfile.mkdtemp has made
    last,       \* the last call on the estimator and its outcome
    fit_done,   \* TRUE iff some fit call has returned normally
    run,        \* the last call of _get_best_weights and its outcome
    pin, pout,  \* _preprocess as a function: its input and its result
    sin, sout   \* score as a function: its input and its result

vars == <<has_keras, args, alive, self, fs, ntmp, last, fit_done, run,
          pin, pout, sin, sout>>

----------------------------------------------------------------------------
(* Bounds of the model *)

MaxRows == 3        \* rows of a feature matrix given to _preprocess
MaxCells == 6       \* rows * columns of a feature matrix
MaxMissing == 1     \* missing entries of a feature matrix
MaxEpochs == 2      \* largest max_epochs an estimator is built with
MaxLoss == 2        \* validation losses are 1..MaxLoss
MaxFits == 1        \* training runs (fit calls that reach training) on one estimator
MaxRuns == 2        \* training runs of one ModelBuilder process
MaxLen == 3         \* length of the vectors given to score

Dims == {1, 2}      \* node and channel counts
Vals == {1, 2}      \* the present entries of a feature matrix
ColCounts == 1 .. 4 \* columns of a feature matrix

----------------------------------------------------------------------------
(* Python and numpy values *)

NaN == 0 - 1

PyInt(n) == [t |-> "int", i |-> n, s |-> ""]
PyFloat(tenths) == [t |-> "float", i |-> tenths, s |-> ""]
PyStr(x) == [t |-> "str", i |-> 0, s |-> x]
PyNone == [t |-> "NoneType", i |-> 0, s |-> ""]

isinstance(v, type) == v.t = type

\* The one element of a one-element set.  Only({F(v) : v \in {e}}) is F(e)
\* with e evaluated once, however often F uses v.
Only(S) == CHOOSE x \in S : TRUE

RECURSIVE Gcd(_, _)
Gcd(a, b) == IF b = 0 THEN a ELSE Gcd(b, a % b)

\* the fraction n/d in lowest terms (n >= 0, d > 0)
Rat(n, d) == LET g == Gcd(n, d) IN <<n \div g, d \div g>>

RECURSIVE Sum(_)
Sum(s) == IF s = <<>> THEN 0 ELSE Head(s) + Sum(Tail(s))

isnan(v) == v = NaN

\* a[mask] for a boolean mask: the entries whose mask is TRUE, in order
BoolIndex(a, mask) ==
    LET idx == SelectSeq([i \in 1 .. Len(a) |-> i], LAMBDA i : mask[i])
    IN [k \in 1 .. Len(idx) |-> a[idx[k]]]

Rows(X) == Len(X)
Cols(X) == IF Len(X) = 0 THEN 0 ELSE Len(X[1])
Column(X, j) == [i \in 1 .. Len(X) |-> X[i][j]]
Present(col) == SelectSeq(col, LAMBDA v : ~isnan(v))

----------------------------------------------------------------------------
(* sklearn.impute.SimpleImputer, as _preprocess uses it *)

SimpleImputerStrategies == {"mean", "median", "most_frequent", "constant"}

NoStat == <<0, 0>>   \* the statistic of a column with no present entry (nan)

Mean(vs) == Rat(Sum(vs), Len(vs))

Median(vs) ==
    LET srt == SortSeq(vs, LAMBDA a, b : a < b)
        n == Len(srt)
    IN IF n % 2 = 1 THEN Rat(srt[(n + 1) \div 2], 1)
       ELSE Rat(srt[n \div 2] + srt[n \div 2 + 1], 2)

\* the statistic of a column's present entries; 'most_frequent' and
\* 'constant' are not computed: the constructor admits neither
Statistic(strategy, vs) ==
    IF vs = <<>> THEN NoStat
    ELSE IF strategy = "mean" THEN Mean(vs)
    ELSE IF strategy = "median" THEN Median(vs)
    ELSE NoStat

\* imp = SimpleImputer(strategy); imp.fit(X): the strategy is validated,
\* then the data (at least one row), then one statistic per column is kept
ImputerFit(strategy, X) ==
    IF strategy \notin SimpleImputerStrategies
    THEN [err |-> "ValueError", why |-> "imputer_strategy", statistics |-> <<>>]
    ELSE IF Rows(X) = 0
    THEN [err |-> "ValueError", why |-> "imputer_samples", statistics |-> <<>>]
    ELSE [err |-> "", why |-> "",
          statistics |-> [j \in 1 .. Cols(X) |->
                             Statistic(strategy, Present(Column(X, j)))]]

\* imp.transform(X): a column whose statistic is nan is dropped, every other
\* missing entry is replaced by its column's statistic
ImputerTransform(statistics, X) ==
    LET kept == SelectSeq([j \in 1 .. Len(statistics) |-> j],
                          LAMBDA j : statistics[j] # NoStat)
    IN [i \in 1 .. Rows(X) |->
          [k \in 1 .. Len(kept) |->
              IF isnan(X[i][kept[k]]) THEN statistics[kept[k]]
              ELSE Rat(X[i][kept[k]], 1)]]

----------------------------------------------------------------------------
(* numpy reshape and swapaxes *)

RECURSIVE Ravel(_)
Ravel(X) == IF X = <<>> THEN <<>> ELSE Head(X) \o Ravel(Tail(X))

\* X.reshape((S, C, N)): the row-major elements, regrouped
Reshape3(X, S, C, N) ==
    LET flat == Ravel(X)
    IN IF Len(flat) # S * C * N
       THEN [err |-> "ValueError", T |-> <<>>]
       ELSE [err |-> "",
             T |-> [s \in 1 .. S |-> [c \in 1 .. C |-> [n \in 1 .. N |->
                      flat[((s - 1) * C + (c - 1)) * N + n]]]]]

\* a variant that reinterprets each (C, N) block as (N, C) without
\* transposing it
ReshapeNoSwap(T) ==
    [s \in 1 .. Len(T) |->
        [n \in 1 .. Len(T[s][1]) |->
            [c \in 1 .. Len(T[s]) |->
                Ravel(T[s])[(n - 1) * Len(T[s]) + c]]]]

\* np.swapaxes(T, 1, 2)
Swapaxes12(T) ==
    [s \in 1 .. Len(T) |->
        [n \in 1 .. Len(T[s][1]) |->
            [c \in 1 .. Len(T[s]) |-> T[s][c][n]]]]

----------------------------------------------------------------------------
(* CNN._preprocess *)

Ndim(X) == 2   \* the model's feature matrices are two-dimensional

\* sklearn check_X_y on the imputed X and the masked y
CheckXy(X, y) ==
    Rows(X) >= 1 /\ Cols(X) >= 1 /\ Rows(X) = Len(y)
    /\ \A i \in 1 .. Len(y) : ~isnan(y[i])

PreFail(where, steps) ==
    [err |-> "ValueError", where |-> where, X |-> <<>>, y |-> <<>>,
     steps |-> steps, statistics |-> <<>>]

\* reshape((n_subjects, n_channels, n_nodes)) and swapaxes(.., 1, 2) of the
\* imputed rows Xi
ReshapeStep(slf, Xi, y, statistics, steps) ==
    Only({IF r.err # "" THEN PreFail("reshape", Append(steps, "reshape"))
          ELSE [err |-> "", where |-> "", X |-> Swapaxes12(r.T), y |-> y,
                steps |-> Append(steps, "reshape"), statistics |-> statistics] :
          r \in {Reshape3(Xi, Rows(Xi), slf.n_channels, slf.n_nodes)}})

\* imp.transform and, when y is given, check_X_y
TransformStep(slf, X, y, has_y, statistics, steps) ==
    Only({IF has_y /\ ~CheckXy(Xi, y)
          THEN PreFail("check_X_y", steps \o <<"transform", "check_X_y">>)
          ELSE ReshapeStep(slf, Xi, y, statistics,
                           IF has_y THEN steps \o <<"transform", "check_X_y">>
                           ELSE Append(steps, "transform")) :
          Xi \in {ImputerTransform(statistics, X)}})

\* imp = SimpleImputer(strategy=self.strategy); imp.fit(X), on the rows that
\* are left after masking
ImputeAndReshape(slf, X, y, has_y, steps) ==
    Only({IF imp.err # "" THEN PreFail(imp.why, Append(steps, "imputer_fit"))
          ELSE TransformStep(slf, X, y, has_y, imp.statistics,
                             Append(steps, "imputer_fit")) :
          imp \in {ImputerFit(slf.strategy, X)}})

\* a variant that fits the imputer on every row and masks afterwards
ImputeThenMask(slf, X, y, has_y) ==
    IF has_y
    THEN LET nan_mask == [i \in 1 .. Len(y) |-> ~isnan(y[i])]
         IN Only({IF imp.err # "" THEN PreFail(imp.why, <<"imputer_fit">>)
                  ELSE TransformStep(slf, BoolIndex(X, nan_mask),
                                     BoolIndex(y, nan_mask), has_y,
                                     imp.statistics, <<"imputer_fit", "mask">>) :
                  imp \in {ImputerFit(slf.strategy, X)}})
    ELSE ImputeAndReshape(slf, X, y, has_y, <<>>)

\* nan_mask = logical_not(isnan(y)); X = X[nan_mask, :]; y = y[nan_mask]
MaskThenImpute(slf, X, y, has_y) ==
    IF has_y
    THEN LET nan_mask == [i \in 1 .. Len(y) |-> ~isnan(y[i])]
         IN Only({ImputeAndReshape(slf, m.X, m.y, has_y, <<"mask">>) :
                  m \in {[X |-> BoolIndex(X, nan_mask),
                          y |-> BoolIndex(y, nan_mask)]}})
    ELSE ImputeAndReshape(slf, X, y, has_y, <<>>)

ShapeMatches(slf, X) == slf.n_nodes * slf.n_channels = Cols(X)

Preprocess(slf, X, y, has_y) ==
    IF ~ShapeMatches(slf, X) THEN PreFail("shape", <<>>)
    ELSE IF Ndim(X) > 2 THEN PreFail("ndim", <<>>)
    ELSE MaskThenImpute(slf, X, y, has_y)

----------------------------------------------------------------------------
(* Feature matrices and target vectors *)

Missing(X) ==
    Cardinality({ij \in (1 .. Rows(X)) \X (1 .. Cols(X)) : isnan(X[ij[1]][ij[2]])})

Matrices(maxRows, maxCells, maxMissing, vals) ==
    UNION {UNION {{X \in [1 .. r -> [1 .. c -> vals \cup {NaN}]] :
                      Missing(X) <= maxMissing} :
                  c \in {k \in ColCounts : r * k <= maxCells}} :
           r \in 1 .. maxRows}

Targets(r) == [1 .. r -> {NaN, 1}]

----------------------------------------------------------------------------
(* CNN.__init__ *)

NoModel == <<0, 0>>   \* model_ = None; trained weights are <<run, epoch>>

NoSelf ==
    [n_nodes |-> 0, n_channels |-> 0, layers |-> 0, max_epochs |-> 0,
     batch_size |-> 0, tuner |-> PyNone, test_size |-> 0, strategy |-> "",
     random_state |-> 0, model_ |-> NoModel, best_hps_ |-> "None",
     is_fitted_ |-> FALSE]

CtorFail(err, where) == [err |-> err, where |-> where, self |-> NoSelf]

Strategies == {"median", "mean", "knn"}

\* a variant that accepts every strategy string
AnyStrategyAccepted(strategy) == TRUE

StrategyAccepted(strategy) == strategy.s \in Strategies

TestSizeAccepted(test_size) == isinstance(test_size, "float")

\* the checks of the constructor, in the order of the code; is_fitted_ is
\* the presence of the attribute, which the constructor does not set
CNN_init(a, keras) ==
    IF ~keras THEN CtorFail("ImportError", "keras")
    ELSE IF ~isinstance(a.n_nodes, "int") THEN CtorFail("TypeError", "n_nodes")
    ELSE IF ~isinstance(a.n_channels, "int") THEN CtorFail("TypeError", "n_channels")
    ELSE IF ~isinstance(a.layers, "int") THEN CtorFail("TypeError", "layers")
    ELSE IF ~isinstance(a.max_epochs, "int") THEN CtorFail("TypeError", "max_epochs")
    ELSE IF ~isinstance(a.batch_size, "int") THEN CtorFail("TypeError", "batch_size")
    ELSE IF ~isinstance(a.tuner, "str") /\ a.tuner # PyNone
         THEN CtorFail("TypeError", "tuner")
    ELSE IF ~TestSizeAccepted(a.test_size) THEN CtorFail("TypeError", "test_size")
    ELSE IF ~isinstance(a.strategy, "str") THEN CtorFail("TypeError", "strategy")
    ELSE IF ~StrategyAccepted(a.strategy) THEN CtorFail("ValueError", "strategy")
    ELSE IF ~isinstance(a.random_state, "int")
         THEN CtorFail("TypeError", "random_state")
    ELSE [err |-> "", where |-> "",
          self |-> [n_nodes |-> a.n_nodes.i, n_channels |-> a.n_channels.i,
                    layers |-> a.layers.i, max_epochs |-> a.max_epochs.i,
                    batch_size |-> a.batch_size.i, tuner |-> a.tuner,
                    test_size |-> a.test_size.i, strategy |-> a.strategy.s,
                    random_state |-> a.random_state.i, model_ |-> NoModel,
                    best_hps_ |-> "None", is_fitted_ |-> FALSE]]

\* the arguments the constructor is called with
CtorArgs ==
    [n_nodes : {PyInt(n) : n \in Dims} \cup {PyStr("2")},
     n_channels : {PyInt(n) : n \in Dims} \cup {PyFloat(10)},
     layers : {PyInt(1), PyNone},
     max_epochs : {PyInt(n) : n \in 0 .. MaxEpochs} \cup {PyFloat(20)},
     batch_size : {PyInt(32), PyStr("32")},
     tuner : {PyNone, PyStr("hyperband"), PyStr("bayesian"), PyStr("random"),
              PyStr("grid"), PyInt(1)},
     test_size : {PyFloat(0 - 2), PyFloat(0), PyFloat(2), PyFloat(10),
                  PyFloat(15), PyInt(1)},
     strategy : {PyStr("median"), PyStr("mean"), PyStr("knn"),
                 PyStr("most_frequent"), PyNone},
     random_state : {PyInt(200), PyNone}]

----------------------------------------------------------------------------
(* sklearn train_test_split(X, y, test_size=..., random_state=...) on n rows: *)
(* a float test_size outside (0, 1) is rejected, n_test = ceil(test_size * n), *)
(* and an empty training set is rejected.  Which rows go to which side is   *)
(* decided by random_state and is not modelled.                            *)

\* a variant of the split that does not check the range of test_size
NoRangeCheck(tenths) == TRUE

TestSizeInRange(tenths) == 0 < tenths /\ tenths < 10

TrainTestSplit(n, tenths) ==
    IF ~TestSizeInRange(tenths)
    THEN [err |-> "ValueError", n_train |-> 0, n_test |-> 0]
    ELSE LET n_test == (tenths * n + 9) \div 10
         IN IF n - n_test <= 0
            THEN [err |-> "ValueError", n_train |-> 0, n_test |-> 0]
            ELSE [err |-> "", n_train |-> n - n_test, n_test |-> n_test]

----------------------------------------------------------------------------
(* ModelBuilder *)

\* a variant that falls back to random search for an unknown name
GetTunerFallback(class_type) ==
    IF isinstance(class_type, "str")
    THEN IF class_type.s = "hyperband" THEN [err |-> "", tuner |-> "Hyperband"]
         ELSE IF class_type.s = "bayesian"
         THEN [err |-> "", tuner |-> "BayesianOptimization"]
         ELSE [err |-> "", tuner |-> "RandomSearch"]
    ELSE [err |-> "TypeError", tuner |-> ""]

\* ModelBuilder._get_tuner: the tuner class instantiated for class_type
GetTuner(class_type) ==
    IF isinstance(class_type, "str")
    THEN IF class_type.s = "hyperband" THEN [err |-> "", tuner |-> "Hyperband"]
         ELSE IF class_type.s = "bayesian"
         THEN [err |-> "", tuner |-> "BayesianOptimization"]
         ELSE IF class_type.s = "random"
         THEN [err |-> "", tuner |-> "RandomSearch"]
         ELSE [err |-> "ValueError", tuner |-> ""]
    ELSE [err |-> "TypeError", tuner |-> ""]

Inf == MaxLoss + 1   \* ModelCheckpoint.best before the first epoch

\* a variant that also saves on a tie (np.less_equal)
MonitorOpLessEqual(current, best) == current <= best

\* ModelCheckpoint's monitor_op for monitor="val_loss", mode="auto": np.less
MonitorOp(current, best) == current < best

\* Keras model.fit with the ModelCheckpoint callback (save_best_only): after
\* epoch e the weights <<id, e>> are saved when the epoch's validation loss
\* improves on the best so far.  ck = [best, saved, weights].
RECURSIVE RunEpochs(_, _, _, _)
RunEpochs(losses, e, id, ck) ==
    IF e > Len(losses) THEN ck
    ELSE RunEpochs(losses, e + 1, id,
                   IF MonitorOp(losses[e], ck.best)
                   THEN [best |-> losses[e], saved |-> TRUE, weights |-> <<id, e>>]
                   ELSE ck)

\* op.join(tempfile.mkdtemp(), "weights.hdf5"): the file in the d-th
\* temporary directory
WeightsPath(d) == d

WriteFile(files, path, w) ==
    [p \in DOMAIN files \cup {path} |-> IF p = path THEN w ELSE files[p]]

\* model.load_weights(weights_path) when training has ended normally;
\* otherwise the weights the model is left with
LoadWeights(files, path, trained) ==
    IF path \in DOMAIN files THEN [err |-> "", weights |-> files[path]]
    ELSE [err |-> "OSError", weights |-> trained]

\* ModelBuilder._get_best_weights on a fresh model: `losses` are the
\* validation losses of the epochs that ran; fewer than max_epochs of them
\* means model.fit raised after the last one.
GetBestWeights(max_epochs, losses, files, dirs) ==
    LET id == dirs + 1
        weights_path == WeightsPath(id)
        trained == IF Len(losses) = 0 THEN NoModel ELSE <<id, Len(losses)>>
        done == IF max_epochs <= 0 THEN TRUE ELSE Len(losses) = max_epochs
    IN Only({LET files1 == IF ck.saved
                           THEN WriteFile(files, weights_path, ck.weights)
                           ELSE files
                 ld == LoadWeights(files1, weights_path, trained)
             IN IF ~done
                THEN [err |-> "FrameworkError", where |-> "train",
                      weights |-> trained, fs |-> files1, ntmp |-> id,
                      path |-> weights_path]
                ELSE [err |-> ld.err,
                      where |-> IF ld.err = "" THEN "" ELSE "load_weights",
                      weights |-> ld.weights, fs |-> files1, ntmp |-> id,
                      path |-> weights_path] :
             ck \in {RunEpochs(losses, 1, id,
                               [best |-> Inf, saved |-> FALSE,
                                weights |-> NoModel])}})

\* the validation losses one training run can report
LossSeqs(max_epochs) ==
    UNION {[1 .. k -> 1 .. MaxLoss] :
           k \in 0 .. (IF max_epochs < 0 THEN 0 ELSE max_epochs)}

----------------------------------------------------------------------------
(* CNN.fit and CNN.predict *)

NoPred == [weights |-> NoModel, n |-> 0]

Outcome(op, err, where, tuners, searched, built, trained, path, pred) ==
    [op |-> op, err |-> err, where |-> where, tuners |-> tuners,
     searched |-> searched, built |-> built, trained |-> trained,
     path |-> path, pred |-> pred]

FitFail(err, where, tuners, searched, built, trained, path) ==
    Outcome("fit", err, where, tuners, searched, built, trained, path, NoPred)

NoRun == [max_epochs |-> 0, losses |-> <<>>, err |-> "none",
          weights |-> NoModel, path |-> 0, before |-> <<>>]

PrepFail(err, where) ==
    [err |-> err, where |-> where, tuners |-> {}, built |-> "none"]

\* ModelBuilder(...), then build_basic_model or, with a tuner, _get_tuner
ChooseBuilder(slf) ==
    IF slf.tuner = PyNone
    THEN [err |-> "", where |-> "", tuners |-> {}, built |-> "basic"]
    ELSE Only({IF gt.err # "" THEN PrepFail(gt.err, "tuner")
               ELSE [err |-> "", where |-> "", tuners |-> {gt.tuner},
                     built |-> "tuned"] :
               gt \in {GetTuner(slf.tuner)}})

\* fit up to the point where the model is built: _preprocess, the
\* train/validation split, then the builder
FitPrepare(slf, X, y) ==
    Only({IF pre.err # "" THEN PrepFail(pre.err, pre.where)
          ELSE IF TrainTestSplit(Len(pre.X), slf.test_size).err # ""
          THEN PrepFail("ValueError", "split")
          ELSE ChooseBuilder(slf) :
          pre \in {Preprocess(slf, X, y, TRUE)}})

\* fit from the built model on: the model's weights bw from
\* _get_best_weights are kept and the estimator is marked fitted
FitFinish(slf, prep, losses, files, bw) ==
    LET rec == [max_epochs |-> slf.max_epochs, losses |-> losses,
                err |-> bw.err, weights |-> bw.weights, path |-> bw.path,
                before |-> files]
        searched == prep.built = "tuned"
    IN IF bw.err # ""
       THEN [self |-> slf, fs |-> bw.fs, ntmp |-> bw.ntmp, run |-> rec,
             last |-> FitFail(bw.err, bw.where, prep.tuners, searched,
                              prep.built, TRUE, bw.path)]
       ELSE [self |-> [slf EXCEPT !.model_ = bw.weights, !.is_fitted_ = TRUE],
             fs |-> bw.fs, ntmp |-> bw.ntmp, run |-> rec,
             last |-> Outcome("fit", "", "", prep.tuners, searched,
                              prep.built, TRUE, bw.path, NoPred)]

FitBuild(slf, prep, searchOk, losses, files, dirs) ==
    IF prep.err # ""
    THEN [self |-> slf, fs |-> files, ntmp |-> dirs, run |-> NoRun,
          last |-> FitFail(prep.err, prep.where, prep.tuners, FALSE,
                           prep.built, FALSE, 0)]
    ELSE IF prep.built = "tuned" /\ ~searchOk
    THEN [self |-> slf, fs |-> files, ntmp |-> dirs, run |-> NoRun,
          last |-> FitFail("FrameworkError", "search", prep.tuners, TRUE,
                           prep.built, FALSE, 0)]
    ELSE Only({FitFinish(slf, prep, losses, files, bw) :
               bw \in {GetBestWeights(slf.max_epochs, losses, files, dirs)}})

\* the whole of fit: the estimator, the disk and the outcome after the call.
\* searchOk: tuner.search returns; losses: the epochs model.fit runs.
CNN_fit(slf, X, y, searchOk, losses, files, dirs) ==
    Only({FitBuild(slf, prep, searchOk, losses, files, dirs) :
          prep \in {FitPrepare(slf, X, y)}})

\* check_is_fitted(self, "is_fitted_")
IsFitted(slf) == slf.is_fitted_

\* predict: _preprocess, then check_is_fitted, then the model's forward pass
CNN_predict(slf, X) ==
    Only({IF pre.err # ""
          THEN Outcome("predict", pre.err, pre.where, {}, FALSE, "none", FALSE,
                       0, NoPred)
          ELSE IF ~IsFitted(slf)
          THEN Outcome("predict", "NotFittedError", "check_is_fitted", {},
                       FALSE, "none", FALSE, 0, NoPred)
          ELSE Outcome("predict", "", "", {}, FALSE, "none", FALSE, 0,
                       [weights |-> slf.model_, n |-> Len(pre.X)]) :
          pre \in {Preprocess(slf, X, <<>>, FALSE)}})

\* the feature matrices fit and predict are called with
FitMatrices == Matrices(2, 8, 1, {1})

----------------------------------------------------------------------------
(* sklearn r2_score and CNN.score *)

Abs(n) == IF n < 0 THEN 0 - n ELSE n

\* n/d in lowest terms, d > 0
Frac(n, d) == LET g == Gcd(Abs(n), d) IN <<n \div g, d \div g>>

SqErr(a, b) == Sum([i \in 1 .. Len(a) |-> (a[i] - b[i]) * (a[i] - b[i])])

\* r2_score(y_true, y_pred): lengths are checked, fewer than two samples is
\* not a number, a constant y_true gives 1 for a perfect fit and 0 otherwise
R2Score(y_true, y_pred) ==
    IF Len(y_true) # Len(y_pred) \/ Len(y_true) = 0
    THEN [err |-> "ValueError", kind |-> "", val |-> <<0, 1>>]
    ELSE IF Len(y_true) < 2
    THEN [err |-> "", kind |-> "nan", val |-> <<0, 1>>]
    ELSE LET n == Len(y_true)
             num == n * SqErr(y_true, y_pred)
             den == n * Sum([i \in 1 .. n |-> y_true[i] * y_true[i]])
                    - Sum(y_true) * Sum(y_true)
         IN IF den = 0
            THEN [err |-> "", kind |-> "value",
                  val |-> IF num = 0 THEN <<1, 1>> ELSE <<0, 1>>]
            ELSE [err |-> "", kind |-> "value", val |-> Frac(den - num, den)]

\* nan_mask = logical_not(isnan(y_test)); y_test = y_test[nan_mask]
MaskTruth(y_test, y_hat) ==
    LET nan_mask == [i \in 1 .. Len(y_test) |-> ~isnan(y_test[i])]
    IN [y_test |-> BoolIndex(y_test, nan_mask), y_hat |-> y_hat]

CNN_score(y_test, y_hat) ==
    LET m == MaskTruth(y_test, y_hat) IN R2Score(m.y_test, m.y_hat)

----------------------------------------------------------------------------
(* The estimator's life: construction, then fit and predict calls *)

NoPre == [err |-> "none", where |-> "", X |-> <<>>, y |-> <<>>,
          steps |-> <<>>, statistics |-> <<>>]
NoPin == [n_nodes |-> 0, n_channels |-> 0, strategy |-> "", X |-> <<>>,
          y |-> <<>>, has_y |-> FALSE]
NoSin == [y_test |-> <<>>, y_hat |-> <<>>]
NoScore == [err |-> "none", kind |-> "", val |-> <<0, 1>>]

IdlePre == pin = NoPin /\ pout = NoPre
IdleScore == sin = NoSin /\ sout = NoScore

\* the state after CNN(...) was called with `a`
Constructed(a, keras) ==
    LET r == CNN_init(a, keras)
    IN /\ has_keras = keras
       /\ args = a
       /\ alive = (r.err = "")
       /\ self = r.self
       /\ last = Outcome("construct", r.err, r.where, {}, FALSE, "none", FALSE,
                         0, NoPred)
       /\ fit_done = FALSE
       /\ fs = <<>>
       /\ ntmp = 0
       /\ run = NoRun

Init ==
    /\ \E keras \in BOOLEAN, a \in CtorArgs : Constructed(a, keras)
    /\ IdlePre
    /\ IdleScore

\* what the training framework can do during one fit call: whether
\* tuner.search returns and the epochs model.fit runs (neither is looked at
\* when the call fails before the model is built)
FrameworkRuns(slf, X, y) ==
    Only({IF prep.err # "" THEN {[searchOk |-> TRUE, losses |-> <<>>]}
          ELSE [searchOk : IF prep.built = "tuned" THEN BOOLEAN ELSE {TRUE},
                losses : LossSeqs(slf.max_epochs)] :
          prep \in {FitPrepare(slf, X, y)}})

FitCall(maxRuns, record) ==
    /\ alive
    /\ ntmp < maxRuns
    /\ \E X \in FitMatrices :
         \E y \in Targets(Rows(X)) :
           \E fw \in FrameworkRuns(self, X, y) :
             \E r \in {CNN_fit(self, X, y, fw.searchOk, fw.losses, fs, ntmp)} :
                /\ self' = r.self
                /\ fs' = r.fs
                /\ ntmp' = r.ntmp
                /\ last' = r.last
                /\ fit_done' = (fit_done \/ r.last.err = "")
                /\ run' = IF record THEN r.run ELSE run
    /\ UNCHANGED <<has_keras, args, alive, pin, pout, sin, sout>>

Fit == FitCall(MaxFits, FALSE)

Predict ==
    /\ alive
    /\ \E X \in FitMatrices : last' = CNN_predict(self, X)
    /\ UNCHANGED <<has_keras, args, alive, self, fs, ntmp, fit_done, run,
                   pin, pout, sin, sout>>

Next == Fit \/ Predict

Spec == Init /\ [][Next]_vars

----------------------------------------------------------------------------
(* _preprocess alone: any estimator shape and strategy the constructor     *)
(* accepts, any feature matrix, with a target vector (fit) or without      *)
(* (predict)                                                               *)

IdleLife ==
    /\ has_keras = TRUE
    /\ args = PyNone
    /\ alive = FALSE
    /\ self = NoSelf
    /\ last = Outcome("none", "", "", {}, FALSE, "none", FALSE, 0, NoPred)
    /\ fit_done = FALSE
    /\ fs = <<>>
    /\ ntmp = 0
    /\ run = NoRun

PreMatrices == Matrices(MaxRows, MaxCells, MaxMissing, Vals)

PreInputs ==
    UNION {[n_nodes : Dims, n_channels : Dims, strategy : Strategies,
            X : {X}, y : Targets(Rows(X)), has_y : {TRUE}]
           \cup [n_nodes : Dims, n_channels : Dims, strategy : Strategies,
                 X : {X}, y : {<<>>}, has_y : {FALSE}] :
           X \in PreMatrices}

InitPre ==
    /\ IdleLife
    /\ IdleScore
    /\ pin \in PreInputs
    /\ pout = NoPre

PreprocessCall ==
    /\ pout = NoPre
    /\ pout' = Preprocess([n_nodes |-> pin.n_nodes, n_channels |-> pin.n_channels,
                           strategy |-> pin.strategy], pin.X, pin.y, pin.has_y)
    /\ UNCHANGED <<has_keras, args, alive, self, fs, ntmp, last, fit_done, run,
                   pin, sin, sout>>

NextPre == PreprocessCall

SpecPre == InitPre /\ [][NextPre]_vars

----------------------------------------------------------------------------
(* score alone: any two vectors of one length *)

ScoreInputs ==
    UNION {[y_test : [1 .. k -> Vals \cup {NaN}], y_hat : [1 .. k -> Vals]] :
           k \in 1 .. MaxLen}

InitScore ==
    /\ IdleLife
    /\ IdlePre
    /\ sin \in ScoreInputs
    /\ sout = NoScore

ScoreCall ==
    /\ sout = NoScore
    /\ sout' = CNN_score(sin.y_test, sin.y_hat)
    /\ UNCHANGED <<has_keras, args, alive, self, fs, ntmp, last, fit_done, run,
                   pin, pout, sin>>

NextScore == ScoreCall

SpecScore == InitScore /\ [][NextScore]_vars

----------------------------------------------------------------------------
(* Repeated fit calls of one estimator with a one-column layout, watched   *)
(* together with the validation losses of each training run                *)

CkptArgs ==
    [n_nodes : {PyInt(1)}, n_channels : {PyInt(1)}, layers : {PyInt(1)},
     max_epochs : {PyInt(n) : n \in 0 .. MaxEpochs}, batch_size : {PyInt(32)},
     tuner : {PyNone, PyStr("random")}, test_size : {PyFloat(2), PyFloat(5)},
     strategy : {PyStr("median")}, random_state : {PyInt(200)}]

InitCkpt ==
    /\ \E a \in CkptArgs : Constructed(a, TRUE)
    /\ IdlePre
    /\ IdleScore

TrainingRun == FitCall(MaxRuns, TRUE)

NextCkpt == TrainingRun

SpecCkpt == InitCkpt /\ [][NextCkpt]_vars

----------------------------------------------------------------------------
(* Properties of predict and fit *)

\* C1: predict called while no fit call has completed successfully fails
\* with a not-fitted error, whatever X it is given, and predict returns a
\* result only after some fit has completed successfully.
C1_PredictBeforeFitIsNotFitted ==
    last.op = "predict" =>
        /\ ~fit_done => last.err = "NotFittedError"
        /\ last.err = "" => fit_done

----------------------------------------------------------------------------
(* Properties of _preprocess *)

\* the rows that survive masking, as indices into the given matrix, in order
KeptRows ==
    IF pin.has_y
    THEN SelectSeq([i \in 1 .. Len(pin.X) |-> i], LAMBDA i : ~isnan(pin.y[i]))
    ELSE [i \in 1 .. Len(pin.X) |-> i]

\* column j's statistic over the surviving rows only
SurvivorStat(j) ==
    Statistic(pin.strategy,
              SelectSeq([k \in 1 .. Len(KeptRows) |-> pin.X[KeptRows[k]][j]],
                        LAMBDA v : ~isnan(v)))

\* the imputed flat entry of surviving row k, column j
ImputedFlat(k, j) ==
    IF isnan(pin.X[KeptRows[k]][j]) THEN pout.statistics[j]
    ELSE <<pin.X[KeptRows[k]][j], 1>>

\* C2: preprocessing a matrix succeeds when it has exactly
\* n_nodes * n_channels columns, and raises the shape error before any
\* other step when the column count differs.
C2_ColumnCountDecides ==
    pout # NoPre =>
        IF pin.n_nodes * pin.n_channels = Cols(pin.X)
        THEN pout.err = ""
        ELSE pout.err = "ValueError" /\ pout.where = "shape" /\ pout.steps = <<>>

\* C4: in fit preprocessing the rows with a missing target are removed from
\* X and y before the imputer is fitted: the statistics come from the
\* surviving rows only, X and y have one row per present target, and the
\* survivors keep their order and their feature/target pairing.
C4_MissingTargetRowsDropped ==
    (pin.has_y /\ pout.err = "") =>
        /\ Len(KeptRows) = Cardinality({i \in 1 .. Len(pin.y) : ~isnan(pin.y[i])})
        /\ Len(pout.X) = Len(KeptRows)
        /\ Len(pout.y) = Len(KeptRows)
        /\ \A k \in 1 .. Len(KeptRows) : pout.y[k] = pin.y[KeptRows[k]]
        /\ \A j \in 1 .. Cols(pin.X) : pout.statistics[j] = SurvivorStat(j)
        /\ \A k \in 1 .. Len(KeptRows) :
             \A n \in 1 .. pin.n_nodes, c \in 1 .. pin.n_channels :
               pout.X[k][n][c] =
                 (LET v == pin.X[KeptRows[k]][(c - 1) * pin.n_nodes + n]
                  IN IF isnan(v) THEN SurvivorStat((c - 1) * pin.n_nodes + n)
                     ELSE <<v, 1>>)

\* C4's case is reached: a row is dropped for its missing target, a
\* surviving row has a missing entry, and the dropped row holds a value in
\* that column that would have changed the column's statistic
C4_Witness ==
    /\ pin.has_y
    /\ pout.err = ""
    /\ Len(pin.X) = 3
    /\ isnan(pin.y[3]) /\ ~isnan(pin.y[1]) /\ ~isnan(pin.y[2])
    /\ isnan(pin.X[1][1]) /\ pin.X[2][1] = 1 /\ pin.X[3][1] = 2
    /\ pout.X[1][1][1] = <<1, 1>>

----------------------------------------------------------------------------
(* Properties of score *)

\* C3: score is the coefficient of determination over exactly the positions
\* whose ground truth is present: the missing entries of y_true and the
\* predictions at the same positions are both left out.
C3_ScoreMasksBoth ==
    sout # NoScore =>
        LET nan_mask == [i \in 1 .. Len(sin.y_test) |-> ~isnan(sin.y_test[i])]
        IN sout = R2Score(BoolIndex(sin.y_test, nan_mask),
                          BoolIndex(sin.y_hat, nan_mask))

----------------------------------------------------------------------------
(* Properties of the constructor *)

\* every argument checked before the strategy is of the type its check asks
ArgsBeforeStrategyValid ==
    /\ has_keras
    /\ args.n_nodes.t = "int" /\ args.n_channels.t = "int"
    /\ args.layers.t = "int" /\ args.max_epochs.t = "int"
    /\ args.batch_size.t = "int"
    /\ args.tuner.t \in {"str", "NoneType"}
    /\ args.test_size.t = "float"

\* C6: a strategy string other than 'median', 'mean' and 'knn' is rejected
\* at construction and no estimator is produced; in a call whose other
\* arguments pass their checks the rejection is the strategy's value error.
C6_UnknownStrategyRejected ==
    (args.strategy.t = "str" /\ args.strategy.s \notin {"median", "mean", "knn"}) =>
        /\ ~alive
        /\ last.op = "construct"
        /\ last.err # ""
        /\ ArgsBeforeStrategyValid =>
             (last.err = "ValueError" /\ last.where = "strategy")

\* C6's case is reached: an otherwise valid call with an unknown strategy
C6_Witness ==
    /\ ArgsBeforeStrategyValid
    /\ args.strategy = PyStr("most_frequent")
    /\ last.op = "construct"
    /\ last.err = "ValueError"
    /\ ~alive

\* C7, as claimed: a test_size that is not a float strictly between 0 and 1
\* fails at construction, so every constructed estimator has
\* 0 < test_size < 1.
C7_RangeCheckedAtConstruction ==
    /\ ~(args.test_size.t = "float" /\ 0 < args.test_size.i /\ args.test_size.i < 10)
          => ~alive
    /\ alive => (0 < self.test_size /\ self.test_size < 10)

\* C7, amended: construction checks the type of test_size only (a non-float
\* is rejected, any float is kept as given); the range is checked in fit,
\* where a test_size outside (0, 1) makes the call fail with a value error
\* before a tuner is made or a model is trained, so every estimator that
\* has been fitted has 0 < test_size < 1.
C7_TypeAtConstructionRangeAtFit ==
    /\ args.test_size.t # "float" => ~alive
    /\ alive => (args.test_size.t = "float" /\ self.test_size = args.test_size.i)
    /\ (ArgsBeforeStrategyValid /\ args.strategy \in {PyStr("median"), PyStr("mean"), PyStr("knn")}
          /\ args.random_state.t = "int") => alive
    /\ (alive /\ ~(0 < self.test_size /\ self.test_size < 10)) =>
          /\ ~fit_done
          /\ ~self.is_fitted_
          /\ last.op = "fit" =>
               (last.err = "ValueError" /\ last.tuners = {} /\ ~last.searched
                /\ ~last.trained)
    /\ fit_done => (0 < self.test_size /\ self.test_size < 10)

\* C7's case is reached: an estimator built with test_size 1.5 whose fit
\* was rejected at the split
C7_Witness ==
    /\ alive
    /\ self.test_size = 15
    /\ last.op = "fit"
    /\ last.err = "ValueError"
    /\ last.where = "split"

----------------------------------------------------------------------------
(* Properties of ModelBuilder *)

\* the epoch with the lowest validation loss, the earliest on ties
BestEpoch(losses) ==
    CHOOSE e \in 1 .. Len(losses) :
        \A d \in 1 .. Len(losses) :
            losses[e] < losses[d] \/ (losses[e] = losses[d] /\ e <= d)

\* C8: when fit returns, the model holds the weights of the epoch with the
\* lowest validation loss of that same fit call (the earliest on ties), and
\* the call used a checkpoint file that did not exist before it.
C8_BestCheckpointRestored ==
    run.err = "" =>
        /\ last.op = "fit" /\ last.err = ""
        /\ Len(run.losses) = run.max_epochs
        /\ run.max_epochs >= 1
        /\ self.is_fitted_
        /\ self.model_ = <<ntmp, BestEpoch(run.losses)>>
        /\ run.path \notin DOMAIN run.before
        /\ run.path \in DOMAIN fs

\* C8's case is reached: a second fit call returns after two epochs with
\* equal losses, while the first call's file is still on disk
C8_Witness ==
    /\ run.err = ""
    /\ ntmp = 2
    /\ DOMAIN run.before # {}
    /\ Len(run.losses) >= 2
    /\ run.losses[1] = run.losses[2]
    /\ self.model_ = <<2, 1>>

TunerClass(name) ==
    CASE name = "hyperband" -> "Hyperband"
      [] name = "bayesian" -> "BayesianOptimization"
      [] name = "random" -> "RandomSearch"

C9_State ==
    last.op = "fit" =>
        /\ self.tuner = PyNone =>
             /\ last.tuners = {}
             /\ ~last.searched
             /\ last.trained => last.built = "basic"
             /\ last.err = "" => last.trained
        /\ \A name \in {"hyperband", "bayesian", "random"} :
             self.tuner = PyStr(name) =>
                /\ last.tuners \subseteq {TunerClass(name)}
                /\ last.searched => last.tuners = {TunerClass(name)}
                /\ last.trained => (last.searched /\ last.built = "tuned")
                /\ last.err = "" => last.trained
        /\ (self.tuner.t = "str"
            /\ self.tuner.s \notin {"hyperband", "bayesian", "random"}) =>
                /\ last.err = "ValueError"
                /\ last.tuners = {}
                /\ ~last.searched
                /\ ~last.trained
                /\ ~self.is_fitted_
                /\ self.model_ = NoModel

C9_Step ==
    (alive /\ last'.op = "fit" /\ self.tuner.t = "str"
     /\ self.tuner.s \notin {"hyperband", "bayesian", "random"}) =>
        (self' = self /\ fs' = fs /\ ntmp' = ntmp)

\* C9: in fit, no tuner selector builds the fixed architecture and makes no
\* tuner; 'hyperband', 'bayesian' and 'random' make and search exactly the
\* corresponding tuner; any other string makes fit fail with a value error
\* before any search or training, and leaves the estimator as it was.
C9_TunerSelection == [](C9_State) /\ [][C9_Step]_vars

\* C9's case is reached: fit on an estimator with an unknown tuner name was
\* rejected by _get_tuner
C9_Witness ==
    /\ alive
    /\ self.tuner = PyStr("grid")
    /\ last.op = "fit"
    /\ last.err = "ValueError"
    /\ last.where = "tuner"

\* C10: every strategy the constructor accepts can be applied: fit and
\* predict never fail because the imputer rejects the strategy.
C10_AcceptedStrategiesImpute ==
    last.op \in {"fit", "predict"} => last.where # "imputer_strategy"

====
